---- MODULE Spec2Model ----
(***************************************************************************)
(* Model of week-01/Task-01/Task-1.py: the e-commerce data-quality script. *)
(*                                                                         *)
(* A DataFrame is a sequence of columns [name, dtype, cells]; a cell is    *)
(*   [kind |-> "nan"]                    a missing cell (NaN / None),      *)
(*   [kind |-> "num", n |-> _, d |-> _]  the number n/d in lowest terms,   *)
(*   [kind |-> "str", s |-> <<chars>>]   a text cell, one string per char. *)
(* dtype is "int64", "float64" or "object" as pandas.read_csv infers it.   *)
(* Floating-point numbers are modelled as exact rationals; the numbers of   *)
(* a loaded table are whole.  Columns of booleans, of dates and of mixed    *)
(* text and numbers are not modelled, nor are failures of the log file or   *)
(* of writing an artifact.                                                  *)
(***************************************************************************)
EXTENDS Integers, Sequences, FiniteSets, TLC

VARIABLES fs, pc, frames, exc, log, artifacts, input, df, ret, called

vars == <<fs, pc, frames, exc, log, artifacts, input, df, ret, called>>

(***************************************************************************)
(* Bounds of the model.                                                    *)
(***************************************************************************)
\* Rows of the enumerated one-column numeric and text tables, and rows and
\* columns of the enumerated several-column tables.
MaxRows == 5
MaxTextRows == 3
MaxDupRows == 3
MaxCols == 2

(***************************************************************************)
(* Cells and numbers.                                                      *)
(***************************************************************************)
NaN == [kind |-> "nan"]
None == [kind |-> "none"]

Abs(i) == IF i < 0 THEN -i ELSE i

RECURSIVE Gcd(_, _)
Gcd(a, b) == IF b = 0 THEN a ELSE Gcd(b, a % b)

Rat(n, d) ==
    LET g == Gcd(Abs(n), Abs(d))
        sg == IF d < 0 THEN -1 ELSE 1
    IN [kind |-> "num", n |-> sg * (n \div g), d |-> sg * (d \div g)]

Num(i) == [kind |-> "num", n |-> i, d |-> 1]
Txt(s) == [kind |-> "str", s |-> s]

isnull(c) == c.kind = "nan"

\* Arithmetic; NaN propagates, as for IEEE floats.
IsNaN(a, b) == a.kind = "nan" \/ b.kind = "nan"
RAdd(a, b) == IF IsNaN(a, b) THEN NaN ELSE Rat(a.n * b.d + b.n * a.d, a.d * b.d)
RSub(a, b) == IF IsNaN(a, b) THEN NaN ELSE Rat(a.n * b.d - b.n * a.d, a.d * b.d)
RMul(a, b) == IF IsNaN(a, b) THEN NaN ELSE Rat(a.n * b.n, a.d * b.d)
\* Comparisons with NaN are False, as for IEEE floats.
RLt(a, b) == a.kind = "num" /\ b.kind = "num" /\ a.n * b.d < b.n * a.d

SeqToSet(s) == {s[i] : i \in 1..Len(s)}

RECURSIVE SumSeq(_)
SumSeq(s) == IF s = <<>> THEN Num(0) ELSE RAdd(Head(s), SumSeq(Tail(s)))

\* Series.dropna(): the non-missing cells, in order.
dropna(cells) == SelectSeq(cells, LAMBDA c : ~isnull(c))

is_numeric_dtype(col) == col.dtype \in {"int64", "float64"}

\* A mean that divides by the number of rows, missing cells included.
mean_over_all_rows(cells) ==
    LET v == dropna(cells)
    IN IF v = <<>> THEN NaN ELSE RMul(SumSeq(v), Rat(1, Len(cells)))

\* Series.mean(): skips missing cells; NaN when there is nothing left.
mean(cells) ==
    LET v == dropna(cells)
    IN IF v = <<>> THEN NaN ELSE RMul(SumSeq(v), Rat(1, Len(v)))

\* Series.fillna(value): a NaN fill value leaves the cell missing.
fillna(cells, value) ==
    [i \in 1..Len(cells) |-> IF isnull(cells[i]) THEN value ELSE cells[i]]

Unknown == Txt(<<"U", "n", "k", "n", "o", "w", "n">>)

(***************************************************************************)
(* handle_missing_values (Task-1.py 92-100).                               *)
(***************************************************************************)
Info(m) == [level |-> "INFO", msg |-> m]
Error(m) == [level |-> "ERROR", msg |-> m]

\* The column's replacement: df[column].fillna(...), lines 95-98.
fill_column(col) ==
    IF is_numeric_dtype(col)
    THEN [col EXCEPT !.cells = fillna(col.cells, mean(col.cells))]
    ELSE [col EXCEPT !.cells = fillna(col.cells, Unknown)]

handle_missing_values(d) ==
    [df |-> [i \in 1..Len(d) |-> fill_column(d[i])],
     log |-> <<Info(<<"Handled missing values">>)>>]

(***************************************************************************)
(* Text: Python's ord, str.isdigit and str() of a cell.                    *)
(***************************************************************************)
DecimalDigits == <<"0", "1", "2", "3", "4", "5", "6", "7", "8", "9">>

\* The character U+00B2 (superscript two), written as one symbol.
SuperscriptTwo == "^2"

\* Unicode code points of the characters the model's texts use.
ord ==
    [c \in {"-"} |-> 45] @@ [c \in {"."} |-> 46] @@
    [c \in SeqToSet(DecimalDigits) |->
        47 + CHOOSE i \in 1..10 : DecimalDigits[i] = c] @@
    ("@" :> 64) @@ ("U" :> 85) @@ ("a" :> 97) @@ ("b" :> 98) @@ ("c" :> 99) @@
    ("d" :> 100) @@ ("k" :> 107) @@ ("m" :> 109) @@ ("n" :> 110) @@
    ("o" :> 111) @@ ("w" :> 119) @@ ("x" :> 120) @@ (SuperscriptTwo :> 178)

\* str.isdigit(): non-empty, every character a digit.  Python counts as digits
\* the decimal characters and the other Unicode digit characters, such as
\* the superscript two.
IsDigitChar(c) == c \in SeqToSet(DecimalDigits) \cup {SuperscriptTwo}
isdigit(s) == s # <<>> /\ \A i \in 1..Len(s) : IsDigitChar(s[i])

RECURSIVE Digits(_)
Digits(n) ==
    IF n < 10 THEN <<DecimalDigits[n + 1]>>
    ELSE Digits(n \div 10) \o <<DecimalDigits[(n % 10) + 1]>>

IntStr(i) == IF i < 0 THEN <<"-">> \o Digits(-i) ELSE Digits(i)

\* str(x) of a cell of a column of the given dtype (whole-valued numbers).
Str(c, dtype) ==
    CASE c.kind = "nan" -> <<"n", "a", "n">>
      [] c.kind = "str" -> c.s
      [] c.kind = "num" ->
            IF dtype = "int64" THEN IntStr(c.n) ELSE IntStr(c.n) \o <<".", "0">>

RECURSIVE StrLt(_, _)
StrLt(a, b) ==
    IF b = <<>> THEN FALSE
    ELSE IF a = <<>> THEN TRUE
    ELSE IF Head(a) = Head(b) THEN StrLt(Tail(a), Tail(b))
    ELSE ord[Head(a)] < ord[Head(b)]

\* The order pandas sorts the values of one column by.
ValueLt(a, b) == IF a.kind = "str" THEN StrLt(a.s, b.s) ELSE RLt(a, b)

RECURSIVE SortSet(_)
SortSet(S) ==
    IF S = {} THEN <<>>
    ELSE LET m == CHOOSE x \in S : \A y \in S \ {x} : ValueLt(x, y)
         IN <<m>> \o SortSet(S \ {m})

RECURSIVE sort_values(_)
sort_values(s) ==
    IF s = <<>> THEN <<>>
    ELSE LET i == CHOOSE k \in 1..Len(s) :
                    \A j \in 1..Len(s) : ~ValueLt(s[j], s[k])
         IN <<s[i]>> \o sort_values(SubSeq(s, 1, i - 1) \o SubSeq(s, i + 1, Len(s)))

(***************************************************************************)
(* The pandas primitives check_data_quality uses.                          *)
(***************************************************************************)
Count(cells, v) == Cardinality({i \in 1..Len(cells) : cells[i] = v})

\* Series.nunique(): the distinct non-missing values.
nunique(cells) == Cardinality(SeqToSet(dropna(cells)))

\* Series.mode(): the most frequent non-missing values, sorted ascending;
\* empty when every cell is missing.
mode(cells) ==
    LET v == dropna(cells)
        S == SeqToSet(v)
    IN SortSet({x \in S : \A y \in S : Count(v, y) <= Count(v, x)})

\* The distinct values of a sequence in first-encountered order.
RECURSIVE unique(_)
unique(s) ==
    IF s = <<>> THEN <<>>
    ELSE <<Head(s)>> \o unique(SelectSeq(Tail(s), LAMBDA c : c # Head(s)))

\* A stable sort of [value, count] entries by descending count.
RECURSIVE SortByCount(_)
SortByCount(s) ==
    IF s = <<>> THEN <<>>
    ELSE LET i == CHOOSE k \in 1..Len(s) :
                    /\ \A j \in 1..Len(s) : s[j].count <= s[k].count
                    /\ \A j \in 1..(k - 1) : s[j].count < s[k].count
         IN <<s[i]>> \o SortByCount(SubSeq(s, 1, i - 1) \o SubSeq(s, i + 1, Len(s)))

\* Series.value_counts(): the non-missing values with their counts, the most
\* frequent first.
value_counts(cells) ==
    LET v == dropna(cells)
        u == unique(v)
    IN SortByCount([i \in 1..Len(u) |-> [value |-> u[i], count |-> Count(v, u[i])]])

\* Series.quantile(q), linear interpolation over the sorted non-missing
\* values; NaN when there are none.  q is a rational in [0, 1].
Floor(r) == r.n \div r.d
\* The value at the fractional 0-based position pos of the sorted values v.
interpolate(v, pos) ==
    IF pos.d = 1 THEN v[Floor(pos) + 1]
    ELSE RAdd(v[Floor(pos) + 1],
              RMul(RSub(pos, Num(Floor(pos))),
                   RSub(v[Floor(pos) + 2], v[Floor(pos) + 1])))

sorted_quantile(v, q) ==
    IF v = <<>> THEN NaN ELSE interpolate(v, RMul(Num(Len(v) - 1), q))

quantile(cells, q) == sorted_quantile(sort_values(dropna(cells)), q)

\* DataFrame.duplicated().sum(): the rows equal, in every column, to an
\* earlier row.
NRows(d) == IF d = <<>> THEN 0 ELSE Len(d[1].cells)
Row(d, r) == [i \in 1..Len(d) |-> d[i].cells[r]]
\* duplicated(keep=False): every row that occurs more than once.
duplicated_keep_false(d) ==
    {r \in 1..NRows(d) : \E e \in (1..NRows(d)) \ {r} : Row(d, e) = Row(d, r)}
duplicated(d) == {r \in 1..NRows(d) : \E e \in 1..(r - 1) : Row(d, e) = Row(d, r)}

(***************************************************************************)
(* check_data_quality (Task-1.py 26-89).  None is Python's None; a count   *)
(* that may be None is Some(k) when it is computed.                        *)
(***************************************************************************)
Some(k) == [kind |-> "some", v |-> k]

\* Series.empty: the column has no rows.
empty(cells) == Len(cells) = 0

\* df[column].mode()[0], line 37: label 0 of an empty result is a KeyError.
mode_raises(col) == ~empty(col.cells) /\ mode(col.cells) = <<>>

top_value(col) == IF ~empty(col.cells) THEN mode(col.cells)[1] ELSE None

frequency(col) == IF ~empty(col.cells) THEN value_counts(col.cells)[1].count ELSE 0

\* A test that also counts the values lying on a bound.
is_outlier_inclusive(c, lower, upper) == ~RLt(lower, c) \/ ~RLt(c, upper)

\* Lines 42-50.
is_outlier(c, lower, upper) == RLt(c, lower) \/ RLt(upper, c)

\* Lines 46-50, given q1 and q3.
iqr(q1, q3) == RSub(q3, q1)
lower_bound(q1, q3) == RSub(q1, RMul(Rat(3, 2), iqr(q1, q3)))
upper_bound(q1, q3) == RAdd(q3, RMul(Rat(3, 2), iqr(q1, q3)))
outlier_count(cells, lower, upper) ==
    Cardinality({i \in 1..Len(cells) : is_outlier(cells[i], lower, upper)})
outlier_sum(cells, q1, q3) ==
    outlier_count(cells, lower_bound(q1, q3), upper_bound(q1, q3))

outliers(col) ==
    IF is_numeric_dtype(col)
    THEN Some(outlier_sum(col.cells, quantile(col.cells, Rat(1, 4)),
                          quantile(col.cells, Rat(3, 4))))
    ELSE None

\* Lines 53-59.
email_invalid(s) == "@" \notin SeqToSet(s)
phone_invalid(s) == ~isdigit(s)

invalid_format(col) ==
    IF col.name = "email"
    THEN Some(Cardinality({i \in 1..Len(col.cells) :
                                email_invalid(Str(col.cells[i], col.dtype))}))
    ELSE IF col.name = "phone"
    THEN Some(Cardinality({i \in 1..Len(col.cells) :
                                phone_invalid(Str(col.cells[i], col.dtype))}))
    ELSE None

\* The dictionary appended for one column, lines 62-71.
column_record(col) ==
    [Column |-> col.name,
     Missing_Values |-> Count(col.cells, NaN),
     Data_Type |-> col.dtype,
     Unique_Values |-> nunique(col.cells),
     Top_Value |-> top_value(col),
     Frequency |-> frequency(col),
     Outliers |-> outliers(col),
     Invalid_Format |-> invalid_format(col)]

\* A loop that stops before the last column.
quality_report_short(d) == [i \in 1..(Len(d) - 1) |-> column_record(d[i])]

\* The loop of lines 31-71 over df.columns.
quality_report(d) == [i \in 1..Len(d) |-> column_record(d[i])]

RECURSIVE SumMissing(_)
SumMissing(report) ==
    IF report = <<>> THEN 0
    ELSE Head(report).Missing_Values + SumMissing(Tail(report))

Positive(x) == x.kind = "some" /\ x.v > 0

report_name(file_name) == "data_quality_report_" \o file_name \o ".txt"

\* The whole call: either the KeyError of line 37 leaves it, before anything
\* is written or logged, or the report is written and the summary logged.
check_data_quality(d, file_name) ==
    IF \E i \in 1..Len(d) : mode_raises(d[i])
    THEN [raised |-> TRUE, exc |-> [type |-> "KeyError", msg |-> "0"],
          written |-> <<>>, log |-> <<>>]
    ELSE LET report == quality_report(d)
             duplicate_rows == Cardinality(duplicated(d))
             names(s) == [i \in 1..Len(s) |-> s[i].Column]
         IN [raised |-> FALSE, exc |-> None,
             written |-> <<[file |-> report_name(file_name), content |-> report]>>,
             log |-> <<Info(<<"Generated data quality report for ", file_name>>),
                       Info(<<"Summary for ", file_name>>),
                       Info(<<"  Missing Values: ", SumMissing(report)>>),
                       Info(<<"  Duplicate Rows: ", duplicate_rows>>),
                       Info(<<"  Columns with Outliers: ",
                              names(SelectSeq(report, LAMBDA r : Positive(r.Outliers)))>>),
                       Info(<<"  Columns with Invalid Formats: ",
                              names(SelectSeq(report,
                                              LAMBDA r : Positive(r.Invalid_Format)))>>)>>]

(***************************************************************************)
(* load_data (Task-1.py 12-23).  A file of the file system is absent,      *)
(* unreadable as CSV, or holds the DataFrame pandas.read_csv parses it to. *)
(***************************************************************************)
Absent == [state |-> "absent", df |-> <<>>]
Malformed == [state |-> "malformed", df |-> <<>>]
Csv(d) == [state |-> "ok", df |-> d]

load_data(file_path, files) ==
    CASE files[file_path].state = "ok" ->
            [raised |-> FALSE, exc |-> None, df |-> files[file_path].df,
             log |-> <<Info(<<"Successfully loaded " \o file_path>>)>>]
      [] files[file_path].state = "absent" ->
            LET e == [type |-> "FileNotFoundError",
                      msg |-> "[Errno 2] No such file or directory: '"
                                \o file_path \o "'"]
            IN [raised |-> TRUE, exc |-> e, df |-> <<>>,
                log |-> <<Error(<<"File not found: " \o file_path>>)>>]
      [] files[file_path].state = "malformed" ->
            LET e == [type |-> "ParserError", msg |-> "Error tokenizing data"]
            IN [raised |-> TRUE, exc |-> e, df |-> <<>>,
                log |-> <<Error(<<"Error loading " \o file_path \o ": " \o e.msg>>)>>]

(***************************************************************************)
(* main (Task-1.py 103-128), one step per statement of the try block.      *)
(***************************************************************************)
Tables == <<"transactions", "products", "customers">>
path(i) == Tables[i] \o ".csv"

At(a, i) == [at |-> a, i |-> i]

\* An order that loads, audits and cleans one table after the other.
next_pc_per_table(p) ==
    CASE p.at = "load" -> At("audit", p.i)
      [] p.at = "audit" -> At("clean", p.i)
      [] p.at = "clean" ->
            IF p.i < Len(Tables) THEN At("load", p.i + 1) ELSE At("complete", 0)

\* The statement after the one at p: lines 109-111, 114-116, 119-121, 123.
next_pc(p) ==
    IF p.i < Len(Tables) THEN At(p.at, p.i + 1)
    ELSE CASE p.at = "load" -> At("audit", 1)
           [] p.at = "audit" -> At("clean", 1)
           [] p.at = "clean" -> At("complete", 0)

Unset == [set |-> FALSE, df |-> <<>>]
Frame(d) == [set |-> TRUE, df |-> d]

\* Line 106.
Start ==
    /\ pc = At("start", 0)
    /\ log' = Append(log, Info(<<"Starting E-commerce Data Processing">>))
    /\ pc' = At("load", 1)
    /\ UNCHANGED <<fs, frames, exc, artifacts, input, df, ret, called>>

\* Lines 109-111: <table> = load_data('<table>.csv').
Load ==
    /\ pc.at = "load"
    /\ LET r == load_data(path(pc.i), fs)
       IN /\ log' = log \o r.log
          /\ IF r.raised
             THEN /\ exc' = r.exc
                  /\ pc' = At("except", 0)
                  /\ UNCHANGED frames
             ELSE /\ frames' = [frames EXCEPT ![pc.i] = Frame(r.df)]
                  /\ pc' = next_pc(pc)
                  /\ UNCHANGED exc
    /\ UNCHANGED <<fs, artifacts, input, df, ret, called>>

\* Lines 114-116: check_data_quality(<table>, '<table>').
Audit ==
    /\ pc.at = "audit"
    /\ LET r == check_data_quality(frames[pc.i].df, Tables[pc.i])
       IN /\ log' = log \o r.log
          /\ artifacts' = artifacts \o r.written
          /\ IF r.raised
             THEN exc' = r.exc /\ pc' = At("except", 0)
             ELSE pc' = next_pc(pc) /\ UNCHANGED exc
    /\ UNCHANGED <<fs, frames, input, df, ret, called>>

\* Lines 119-121: <table> = handle_missing_values(<table>).
Clean ==
    /\ pc.at = "clean"
    /\ LET r == handle_missing_values(frames[pc.i].df)
       IN /\ log' = log \o r.log
          /\ frames' = [frames EXCEPT ![pc.i] = Frame(r.df)]
    /\ pc' = next_pc(pc)
    /\ UNCHANGED <<fs, exc, artifacts, input, df, ret, called>>

\* Line 123.
Complete ==
    /\ pc.at = "complete"
    /\ log' = Append(log, Info(<<"E-commerce Data Processing Completed Successfully">>))
    /\ pc' = At("done", 0)
    /\ UNCHANGED <<fs, frames, exc, artifacts, input, df, ret, called>>

\* An except clause that logs the failure and writes no error report.
Except_log_only ==
    /\ pc.at = "except"
    /\ log' = Append(log, Error(<<"An error occurred during processing: " \o exc.msg>>))
    /\ pc' = At("done", 0)
    /\ UNCHANGED <<fs, frames, exc, artifacts, input, df, ret, called>>

\* Lines 125-128: the except clause.
Except ==
    /\ pc.at = "except"
    /\ log' = Append(log, Error(<<"An error occurred during processing: " \o exc.msg>>))
    /\ artifacts' = Append(artifacts, [file |-> "error_report.txt",
                                       content |-> "Error: " \o exc.msg])
    /\ pc' = At("done", 0)
    /\ UNCHANGED <<fs, frames, exc, input, df, ret, called>>

(***************************************************************************)
(* The inputs: DataFrames as read_csv builds them (an int64 column has no  *)
(* missing cell; a column with nothing but missing cells is float64), and  *)
(* DataFrames a caller may build directly.                                  *)
(***************************************************************************)
Column(name, dtype, cells) == [name |-> name, dtype |-> dtype, cells |-> cells]

S_ab == <<"a", "@", "b", ".", "c", "o", "m">>
S_bad == <<"b", "a", "d">>
S_123 == <<"1", "2", "3">>
S_12a == <<"1", "2", "a">>
S_12sup == <<"1", "2", SuperscriptTwo>>
S_x == <<"x">>

IntVals == {1, 2, 100}
StrVals == {S_ab, S_bad, S_123, S_12a, S_12sup, S_x}

IntCells(n) == [1..n -> {Num(v) : v \in IntVals}]
FloatCells(n) == [1..n -> {Num(v) : v \in IntVals} \cup {NaN}]
TextCells(n) == [1..n -> {Txt(s) : s \in StrVals} \cup {NaN}]

OneColumnTables ==
    {<<Column(nm, "int64", c)>> :
        nm \in {"price", "phone"}, c \in UNION {IntCells(n) : n \in 0..MaxRows}}
    \cup {<<Column(nm, "float64", c)>> :
        nm \in {"price", "phone"}, c \in UNION {FloatCells(n) : n \in 0..MaxRows}}
    \cup {<<Column(nm, "object", c)>> :
        nm \in {"email", "phone", "name"},
        c \in UNION {TextCells(n) : n \in 0..MaxTextRows}}

\* Tables of several columns: column j is named ColumnNames[j]; the odd
\* columns are int64 over {1, 2}, the even ones text over {"x", missing}.
ColumnNames == <<"customer_id", "email", "phone", "name">>
SmallCells(j, n) ==
    IF j % 2 = 1 THEN [1..n -> {Num(1), Num(2)}] ELSE [1..n -> {Txt(S_x), NaN}]
SmallDtype(j) == IF j % 2 = 1 THEN "int64" ELSE "object"
SmallTables(k, n) ==
    {[j \in 1..k |-> Column(ColumnNames[j], SmallDtype(j), rows[j])] :
        rows \in {f \in [1..k -> UNION {SmallCells(j, n) : j \in 1..2}] :
                    \A j \in 1..k : f[j] \in SmallCells(j, n)}}
ManyColumnTables ==
    UNION {SmallTables(k, n) : k \in 2..MaxCols, n \in 0..MaxDupRows}

\* The tables of the specification's worked examples.
OutlierExample == <<Column("price", "int64", <<Num(1), Num(2), Num(3), Num(4), Num(100)>>)>>
MeanExample == <<Column("amount", "float64", <<Num(2), NaN, Num(4)>>)>>
TextExample == <<Column("name", "object", <<NaN, Txt(S_x)>>)>>
DuplicateExample ==
    <<Column("customer_id", "int64", <<Num(1), Num(1), Num(2)>>),
      Column("email", "object", <<Txt(S_ab), Txt(S_ab), Txt(S_ab)>>)>>
ContactsExample ==
    <<Column("email", "object", <<Txt(S_ab), Txt(S_bad)>>),
      Column("phone", "object", <<Txt(S_123), Txt(S_12a)>>)>>
OrdersExample ==
    <<Column("id", "int64", <<Num(1), Num(2), Num(3)>>),
      Column("amount", "float64", <<Num(2), NaN, Num(4)>>)>>
EmptyPriceExample ==
    <<Column("product_id", "int64", <<Num(1), Num(2)>>),
      Column("price", "float64", <<NaN, NaN>>)>>
HeaderOnlyExample == <<Column("name", "object", <<>>)>>

ExampleTables ==
    {OutlierExample, MeanExample, TextExample, DuplicateExample, ContactsExample,
     OrdersExample, EmptyPriceExample, HeaderOnlyExample}

UnitTables == OneColumnTables \cup ManyColumnTables \cup ExampleTables

\* What the three input files of a run may hold.
FileTables ==
    {OrdersExample, ContactsExample, TextExample, EmptyPriceExample, HeaderOnlyExample}
FileStates == {Absent, Malformed} \cup {Csv(d) : d \in FileTables}
Paths == {path(i) : i \in 1..Len(Tables)}

(***************************************************************************)
(* Spec: one run of main over the three input files.                       *)
(***************************************************************************)
Init ==
    /\ fs \in [Paths -> FileStates]
    /\ pc = At("start", 0)
    /\ frames = [i \in 1..Len(Tables) |-> Unset]
    /\ exc = None
    /\ log = <<>>
    /\ artifacts = <<>>
    /\ input = <<>>
    /\ df = <<>>
    /\ ret = None
    /\ called = "none"

Next == Start \/ Load \/ Audit \/ Clean \/ Complete \/ Except

Spec == Init /\ [][Next]_vars

(***************************************************************************)
(* UnitSpec: one call of check_data_quality or of handle_missing_values on *)
(* a DataFrame, which handle_missing_values changes in place.              *)
(***************************************************************************)
UnitInit ==
    /\ input \in UnitTables
    /\ df = input
    /\ ret = None
    /\ called = "none"
    /\ fs = [p \in Paths |-> Absent]
    /\ pc = At("idle", 0)
    /\ frames = [i \in 1..Len(Tables) |-> Unset]
    /\ exc = None
    /\ log = <<>>
    /\ artifacts = <<>>

CallCheckDataQuality ==
    /\ called = "none"
    /\ LET r == check_data_quality(df, "table")
       IN /\ ret' = r
          /\ log' = log \o r.log
          /\ artifacts' = artifacts \o r.written
    /\ called' = "check_data_quality"
    /\ UNCHANGED <<fs, pc, frames, exc, input, df>>

CallHandleMissingValues ==
    /\ called = "none"
    /\ LET r == handle_missing_values(df)
       IN /\ ret' = r
          /\ df' = r.df
          /\ log' = log \o r.log
    /\ called' = "handle_missing_values"
    /\ UNCHANGED <<fs, pc, frames, exc, artifacts, input>>

UnitNext == CallCheckDataQuality \/ CallHandleMissingValues

UnitSpec == UnitInit /\ [][UnitNext]_vars

(***************************************************************************)
(* Properties of handle_missing_values (UnitSpec).                         *)
(***************************************************************************)
Cleaned == called = "handle_missing_values"
Audited == called = "check_data_quality"

Missing(cells) == {r \in 1..Len(cells) : cells[r] = NaN}
Present(cells) == {r \in 1..Len(cells) : cells[r] # NaN}

\* C1: after handle_missing_values has completed, every column of the
\* returned table has zero missing cells, whatever the table (a numeric
\* column with nothing but missing cells included).
C1_NoMissingCellAfterCleaning ==
    Cleaned => \A j \in 1..Len(ret.df) : Missing(ret.df[j].cells) = {}

\* The sum of the whole numbers of the non-missing cells.
RECURSIVE IntSum(_)
IntSum(cells) ==
    IF cells = <<>> THEN 0
    ELSE (IF Head(cells) = NaN THEN 0 ELSE Head(cells).n) + IntSum(Tail(cells))

\* after is the arithmetic mean of the non-missing cells of before.
IsMeanOf(after, before) ==
    /\ after.kind = "num"
    /\ after.n * Cardinality(Present(before)) = after.d * IntSum(before)

\* C4: handle_missing_values replaces each missing cell of a numeric column
\* that has a non-missing value by the arithmetic mean of the column's
\* non-missing values as they were before the call, each missing cell of a
\* non-numeric column by the text "Unknown", and leaves every other cell as
\* it was; [2, null, 4] becomes [2, 3, 4] and [null, "x"] becomes
\* ["Unknown", "x"].  The table returned is the table passed, changed in place.
C4_FillValues ==
    Cleaned =>
        /\ ret.df = df
        /\ Len(ret.df) = Len(input)
        /\ \A j \in 1..Len(input) :
            LET before == input[j].cells
                after == ret.df[j].cells
            IN /\ ret.df[j].name = input[j].name
               /\ ret.df[j].dtype = input[j].dtype
               /\ Len(after) = Len(before)
               /\ \A r \in Present(before) : after[r] = before[r]
               /\ \A r \in Missing(before) :
                    IF input[j].dtype = "object"
                    THEN after[r] = Txt(<<"U", "n", "k", "n", "o", "w", "n">>)
                    ELSE Present(before) # {} => IsMeanOf(after[r], before)
        /\ (input = MeanExample =>
                ret.df[1].cells = <<Num(2), Num(3), Num(4)>>)
        /\ (input = TextExample =>
                ret.df[1].cells = <<Txt(<<"U", "n", "k", "n", "o", "w", "n">>), Txt(S_x)>>)

\* A numeric column with missing and non-missing cells has been cleaned, the
\* mean being no whole number.
C4_Witness ==
    /\ Cleaned
    /\ \E j \in 1..Len(input) :
        /\ input[j].dtype = "float64"
        /\ Missing(input[j].cells) # {}
        /\ \E r \in Missing(input[j].cells) :
            ret.df[j].cells[r].kind = "num" /\ ret.df[j].cells[r].d > 1

(***************************************************************************)
(* Properties of check_data_quality (UnitSpec).                            *)
(***************************************************************************)
\* The report written by the call, when it wrote one.
Reported == Audited /\ ~ret.raised /\ Len(artifacts) = 1
TheReport == artifacts[1].content

\* C5: the report built by check_data_quality holds exactly one record per
\* column of the table, in the table's column order.
C5_OneRecordPerColumn ==
    Audited /\ ~ret.raised =>
        /\ Len(artifacts) = 1
        /\ artifacts[1].file = "data_quality_report_table.txt"
        /\ Len(TheReport) = Len(input)
        /\ \A j \in 1..Len(input) : TheReport[j].Column = input[j].name

C5_Witness ==
    /\ Reported
    /\ Len(input) > 1
    /\ TheReport[1].Column = "customer_id"
    /\ TheReport[2].Column = "email"

\* The values of a column with the highest occurrence count, and the one of
\* them met first in the column.
Occurrences(cells, v) == Cardinality({r \in 1..Len(cells) : cells[r] = v})
MostFrequent(cells) ==
    {v \in SeqToSet(cells) \ {NaN} :
        \A w \in SeqToSet(cells) \ {NaN} : Occurrences(cells, w) <= Occurrences(cells, v)}
FirstMet(cells, S) ==
    cells[CHOOSE r \in 1..Len(cells) :
            cells[r] \in S /\ \A e \in 1..(r - 1) : cells[e] \notin S]

\* C6: the most-frequent value reported for a column is the value with the
\* highest occurrence count, with that count; of several values with the
\* highest count it is the one met first in the column; and for a column
\* with no value to report it is None, not an error.
C6_TopValueFirstMet ==
    Audited =>
        /\ ~ret.raised
        /\ \A j \in 1..Len(input) :
            LET cells == input[j].cells
            IN IF Present(cells) = {}
               THEN TheReport[j].Top_Value = None
               ELSE /\ TheReport[j].Top_Value = FirstMet(cells, MostFrequent(cells))
                    /\ TheReport[j].Frequency =
                            Occurrences(cells, FirstMet(cells, MostFrequent(cells)))

\* The string form of a cell: the text itself, "nan" for a missing cell, the
\* digits of a whole number, followed by ".0" in a float64 column.
StringForm(col, r) == Str(col.cells[r], col.dtype)
LacksAt(s) == \A i \in 1..Len(s) : s[i] # "@"
OnlyDecimalDigits(s) ==
    /\ s # <<>>
    /\ \A i \in 1..Len(s) :
        s[i] \in {"0", "1", "2", "3", "4", "5", "6", "7", "8", "9"}

\* C7: the format-violation count is computed only for a column named
\* exactly email (the cells whose string form contains no '@') or exactly
\* phone (the cells whose string form is not made only of decimal digits),
\* and is None for every other column; ["a@b.com", "bad"] gives 1 and
\* ["123", "12a"] gives 1.
C7_InvalidFormat ==
    Reported =>
        /\ \A j \in 1..Len(input) :
            LET col == input[j]
                rows == 1..Len(col.cells)
            IN CASE col.name = "email" ->
                        TheReport[j].Invalid_Format =
                            Some(Cardinality({r \in rows : LacksAt(StringForm(col, r))}))
                 [] col.name = "phone" ->
                        TheReport[j].Invalid_Format =
                            Some(Cardinality({r \in rows :
                                                ~OnlyDecimalDigits(StringForm(col, r))}))
                 [] OTHER -> TheReport[j].Invalid_Format = None
        /\ (input = ContactsExample =>
                TheReport[1].Invalid_Format = Some(1) /\ TheReport[2].Invalid_Format = Some(1))

\* The k-th smallest of the non-missing whole numbers of a column.
Values(cells) == {cells[r].n : r \in Present(cells)}
Kth(cells, k) ==
    CHOOSE x \in Values(cells) :
        /\ Cardinality({r \in Present(cells) : cells[r].n < x}) < k
        /\ k <= Cardinality({r \in Present(cells) : cells[r].n <= x})

\* Four times the linearly interpolated quantile m/4 (m = 1 for Q1, 3 for
\* Q3) of the non-missing values: position m(n-1)/4 of the sorted values.
Quantile4(cells, m) ==
    LET n == Cardinality(Present(cells))
        k == (m * (n - 1)) \div 4
        f == (m * (n - 1)) % 4
    IN IF f = 0 THEN 4 * Kth(cells, k + 1)
       ELSE 4 * Kth(cells, k + 1) + f * (Kth(cells, k + 2) - Kth(cells, k + 1))

\* The rows whose value is strictly below Q1 - 1.5 IQR or strictly above
\* Q3 + 1.5 IQR (all terms multiplied by 8).
OutlierRows(cells) ==
    LET Q1 == Quantile4(cells, 1)
        Q3 == Quantile4(cells, 3)
    IN {r \in Present(cells) :
            \/ 8 * cells[r].n < 2 * Q1 - 3 * (Q3 - Q1)
            \/ 8 * cells[r].n > 2 * Q3 + 3 * (Q3 - Q1)}

\* C8: for a numeric column the outlier count is the number of values
\* strictly below Q1 - 1.5*IQR or strictly above Q3 + 1.5*IQR, Q1 and Q3
\* being the linearly interpolated 0.25 and 0.75 quantiles; it is 1 for
\* [1, 2, 3, 4, 100] and None for a non-numeric column.
C8_OutlierCount ==
    Reported =>
        /\ \A j \in 1..Len(input) :
            IF input[j].dtype = "object"
            THEN TheReport[j].Outliers = None
            ELSE TheReport[j].Outliers =
                    Some(IF Present(input[j].cells) = {} THEN 0
                         ELSE Cardinality(OutlierRows(input[j].cells)))
        /\ (input = OutlierExample =>
                /\ Quantile4(input[1].cells, 1) = 4 * 2
                /\ Quantile4(input[1].cells, 3) = 4 * 4
                /\ OutlierRows(input[1].cells) = {5}
                /\ TheReport[1].Outliers = Some(1))

\* A column with missing cells and an outlier has been audited.
C8_Witness ==
    /\ Reported
    /\ input[1].dtype = "float64"
    /\ Missing(input[1].cells) # {}
    /\ TheReport[1].Outliers = Some(1)

\* The duplicate-row count the call logged.
LoggedDuplicateRows ==
    log[CHOOSE k \in 1..Len(log) : log[k].msg[1] = "  Duplicate Rows: "].msg[2]

\* C9: the duplicate-row count equals the number of rows equal in every
\* column to some earlier row of the table; rows [A, A, B] give 1.
C9_DuplicateRows ==
    Reported =>
        /\ LoggedDuplicateRows =
            Cardinality({r \in 1..Len(input[1].cells) :
                \E e \in 1..(r - 1) :
                    \A j \in 1..Len(input) : input[j].cells[e] = input[j].cells[r]})
        /\ (input = DuplicateExample => LoggedDuplicateRows = 1)

\* A table of several columns with a row occurring three times has been
\* audited: the second and third occurrence are counted.
C9_Witness ==
    /\ Reported
    /\ Len(input) > 1
    /\ Len(input[1].cells) = 3
    /\ \A j \in 1..Len(input) : \A r \in 1..3 : input[j].cells[r] = input[j].cells[1]
    /\ LoggedDuplicateRows = 2

(***************************************************************************)
(* Properties of main (Spec).                                              *)
(***************************************************************************)
Failed == exc # None
Done == pc.at = "done"
SuccessEntry == Info(<<"E-commerce Data Processing Completed Successfully">>)
HasEntry(text) == \E k \in 1..Len(log) : log[k].msg[1] = text
ErrorReports == {k \in 1..Len(artifacts) : artifacts[k].file = "error_report.txt"}
Reports == {k \in 1..Len(artifacts) : artifacts[k].file # "error_report.txt"}
AllLoadable == \A p \in Paths : fs[p].state = "ok"

\* Once a stage has raised, the run is in the except clause or over; a run
\* that ends after a failure ends with the failure logged and with
\* error_report.txt = "Error: <message>" written once, and without the
\* success entry.  A missing file is such a failure, logged by load_data too.
C2_State ==
    /\ Failed => pc.at \in {"except", "done"}
    /\ pc.at = "except" => Failed
    /\ (Done /\ Failed) =>
        /\ log[Len(log)].level = "ERROR"
        /\ log[Len(log)].msg[1] = "An error occurred during processing: " \o exc.msg
        /\ Cardinality(ErrorReports) = 1
        /\ artifacts[Len(artifacts)].file = "error_report.txt"
        /\ artifacts[Len(artifacts)].content = "Error: " \o exc.msg
        /\ ~HasEntry(SuccessEntry.msg[1])
    /\ \A i \in 1..Len(Tables) :
        (Done /\ fs[path(i)].state # "ok" /\ \A j \in 1..(i - 1) : fs[path(j)].state = "ok")
            => /\ Failed
               /\ fs[path(i)].state = "absent" =>
                    /\ exc.type = "FileNotFoundError"
                    /\ HasEntry("File not found: " \o path(i))

\* The only step taken after a stage has raised is the except clause: it
\* adds one log entry and one artifact, runs no stage and ends the run.
C2_Step ==
    Failed =>
        /\ pc.at = "except" /\ pc'.at = "done"
        /\ frames' = frames /\ exc' = exc
        /\ Len(log') = Len(log) + 1
        /\ Len(artifacts') = Len(artifacts) + 1

\* C2: if any stage of main raises (a load of a nonexistent path included,
\* which load_data logs and re-raises), main logs the failure, runs no later
\* stage, logs no success entry, writes error_report.txt as the single line
\* 'Error: <message>' with that failure's message, and ends without raising.
C2_FailureHandling == [](C2_State) /\ [][C2_Step]_vars

\* A run has ended after its second load found no file.
C2_Witness ==
    /\ Done /\ Failed
    /\ exc.type = "FileNotFoundError"
    /\ frames[1].set /\ ~frames[2].set
    /\ Len(artifacts) = 1
    /\ artifacts[1].content = "Error: [Errno 2] No such file or directory: 'products.csv'"

\* C3: a run over three tables that all load successfully, whatever their
\* cells (a column with nothing but missing cells included), ends with
\* exactly three report artifacts, one per table, with the success entry
\* logged and with no error artifact; the error artifact is written only on
\* failure.
C3_SuccessOnLoadableTables ==
    /\ (Done /\ AllLoadable) =>
        /\ Cardinality(Reports) = Len(Tables)
        /\ \A i \in 1..Len(Tables) :
            \E k \in Reports : artifacts[k].file = report_name(Tables[i])
        /\ log[Len(log)] = SuccessEntry
        /\ ErrorReports = {}
    /\ ErrorReports # {} => Failed

\* The stages the log records, in order.
StageOf(entry) ==
    CASE \E i \in 1..Len(Tables) : entry.msg[1] = "Successfully loaded " \o path(i) -> "load"
      [] entry.msg[1] = "Generated data quality report for " -> "audit"
      [] entry.msg[1] = "Handled missing values" -> "clean"
      [] OTHER -> "none"
StageEntries == SelectSeq(log, LAMBDA e : StageOf(e) # "none")
StageSubject(entry) ==
    CASE StageOf(entry) = "load" ->
            CHOOSE i \in 1..Len(Tables) : entry.msg[1] = "Successfully loaded " \o path(i)
      [] StageOf(entry) = "audit" ->
            CHOOSE i \in 1..Len(Tables) : entry.msg[2] = Tables[i]
      [] OTHER -> 0
NumberOf(stage) == Cardinality({k \in 1..Len(StageEntries) : StageOf(StageEntries[k]) = stage})

\* C10: the stages run in the order load(transactions), load(products),
\* load(customers), the three audits in that order, the three cleans in that
\* order: no audit before all three loads have succeeded, no clean before
\* all three audits have finished; when a load fails no report is written
\* and no table is cleaned; every report reflects its table as loaded.
C10_StageOrder ==
    /\ \A k \in 1..Len(StageEntries) :
        LET e == StageEntries[k]
        IN CASE k <= 3 -> StageOf(e) = "load" /\ StageSubject(e) = k
             [] k > 3 /\ k <= 6 -> StageOf(e) = "audit" /\ StageSubject(e) = k - 3
             [] OTHER -> StageOf(e) = "clean" /\ k <= 9
    /\ pc.at = "audit" => \A i \in 1..Len(Tables) : frames[i].set
    /\ pc.at = "clean" => NumberOf("audit") = Len(Tables) /\ NumberOf("clean") = pc.i - 1
    /\ Reports # {} => \A i \in 1..Len(Tables) : frames[i].set
    /\ ~AllLoadable =>
        /\ Reports = {}
        /\ NumberOf("clean") = 0
        /\ \A i \in 1..Len(Tables) : frames[i].set => frames[i].df = fs[path(i)].df
    /\ \A k \in Reports : \A i \in 1..Len(Tables) :
        artifacts[k].file = report_name(Tables[i]) =>
            \A j \in 1..Len(fs[path(i)].df) :
                /\ artifacts[k].content[j].Column = fs[path(i)].df[j].name
                /\ artifacts[k].content[j].Missing_Values =
                        Cardinality(Missing(fs[path(i)].df[j].cells))

\* A run over three loadable tables has ended: three reports, and the
\* missing cell the first report counts has since been filled.
C10_Witness ==
    /\ Done /\ ~Failed
    /\ Cardinality(Reports) = 3
    /\ NumberOf("clean") = 3
    /\ fs[path(1)].df = OrdersExample
    /\ artifacts[1].file = report_name(Tables[1])
    /\ artifacts[1].content[2].Missing_Values = 1
    /\ Missing(frames[1].df[2].cells) = {}

====
